---------------------------- MODULE Spec2Model ----------------------------
(***************************************************************************)
(* Model of lib/preproc.py: the preproc workflow (nodes, the 18 connect    *)
(* calls, the subject iterable, the edge selectors pickfirst and pickvol)  *)
(* and the workflow engine the script drives (graph construction and       *)
(* freeze, parameter expansion, the executor with its cache store).        *)
(* The script is modelled from its source; the engine it calls             *)
(* (pe.Workflow) is modelled from the design document.                     *)
(***************************************************************************)
EXTENDS Integers, Sequences, FiniteSets, TLC

(***************************************************************************)
(* Bounds of the model.                                                    *)
(***************************************************************************)
MaxSubjDirs == 2
MaxRunDirs == 1
MaxBold == 2
MaxLimit == 2
MaxGraphNodes == 3
MaxAxes == 2
MaxAxisLen == 2
MaxVols == 3
MaxFiles == 2

VARIABLES
  \* graph construction
  graph,        \* [nodes, edges]: the workflow graph built so far
  bound,        \* set of <<dstNode, dstPort>> already fed by an edge
  nconn,        \* number of connect calls of the script executed so far
  script,       \* TRUE when the graph is the one built by the script
  frozen,       \* "no" | "ok" | "CycleDetectedError" | "DuplicateInputError"
  named,        \* node names reported by a failed freeze
  frozenGraphs, \* the frozen graph, as a set with at most one element
  \* parameter expansion
  globbed,      \* what glob returned for datadir/sub*: paths in any order
  pset,         \* a ParameterSet: a sequence of axes, each a sequence of values
  contexts,     \* the iteration contexts expand produced
  xdone,        \* "no" | "generic" | "preproc": which expansion has run
  \* selectors
  which,        \* pickvol's policy tag, as its sequence of characters
  filenames,    \* pickvol's files, each given by the shape of its image
  fileidx, pyMajor, volres,
  \* executor
  nbold,        \* number of bold runs the data source finds per subject
  plan,         \* the ExecutionPlan: the set of ExecutionInstances
  limit,        \* concurrencyLimit
  status, reason, inputs, invoked,
  cache,        \* cache store: the CacheKeys marked done
  succeeded,    \* instances whose action returned successfully
  cancelled, pendingAtCancel,
  returned

buildVars == <<graph, bound, nconn, script, frozen, named, frozenGraphs>>
expandVars == <<globbed, pset, contexts, xdone>>
selVars == <<which, filenames, fileidx, pyMajor, volres>>
runVars == <<nbold, plan, limit, status, reason, inputs, invoked, cache, succeeded,
             cancelled, pendingAtCancel, returned>>
vars == <<buildVars, expandVars, selVars, runVars>>

(***************************************************************************)
(* The preproc workflow as the script builds it.                           *)
(***************************************************************************)
\* every pe.Node / pe.MapNode the script creates, by its name= argument
Nodes ==
  {"infosource", "datasource", "img2float", "extractref", "realign",
   "skull_strip", "coregister", "normalize_affine", "normalize_warp",
   "apply_warp", "smooth", "datasink"}

\* the pe.MapNode ones; each has iterfield=['in_file']
MapNodes == {"img2float", "extractref", "realign", "apply_warp", "smooth"}

iterfield(n) == IF n \in MapNodes THEN {"in_file"} ELSE {}

Conn(s, sp, sel, d, dp) ==
  [src |-> s, sport |-> sp, sel |-> sel, dst |-> d, dport |-> dp]

\* a graph with one extra connect that closes a cycle
ConnectCallsCyclic ==
  << Conn("infosource", "subject_id", "identity", "datasource", "subject_id"),
     Conn("datasource", "bold", "identity", "img2float", "in_file"),
     Conn("img2float", "out_file", "identity", "extractref", "in_file"),
     Conn("img2float", "out_file", "identity", "realign", "in_file"),
     Conn("extractref", "roi_file", "pickfirst", "realign", "ref_file"),
     Conn("datasource", "anat", "identity", "skull_strip", "in_file"),
     Conn("extractref", "roi_file", "pickfirst", "coregister", "reference"),
     Conn("skull_strip", "out_file", "identity", "coregister", "in_file"),
     Conn("coregister", "out_file", "identity", "normalize_affine", "in_file"),
     Conn("coregister", "out_file", "identity", "normalize_warp", "in_file"),
     Conn("normalize_affine", "out_matrix_file", "identity", "normalize_warp", "affine_file"),
     Conn("realign", "out_file", "identity", "apply_warp", "in_file"),
     Conn("normalize_affine", "out_matrix_file", "identity", "apply_warp", "premat"),
     Conn("normalize_warp", "field_file", "identity", "apply_warp", "field_file"),
     Conn("apply_warp", "out_file", "identity", "smooth", "in_file"),
     Conn("smooth", "out_file", "identity", "realign", "init"),
     Conn("smooth", "out_file", "identity", "datasink", "smooth_func"),
     Conn("normalize_warp", "warped_file", "identity", "datasink", "norm_anat") >>

\* the graph with the two edges into coregister and realign's ref_file left out
ConnectCallsUnwired ==
  << Conn("infosource", "subject_id", "identity", "datasource", "subject_id"),
     Conn("datasource", "bold", "identity", "img2float", "in_file"),
     Conn("img2float", "out_file", "identity", "extractref", "in_file"),
     Conn("img2float", "out_file", "identity", "realign", "in_file"),
     Conn("datasource", "anat", "identity", "skull_strip", "in_file"),
     Conn("extractref", "roi_file", "pickfirst", "coregister", "reference"),
     Conn("datasource", "anat", "identity", "coregister", "in_file"),
     Conn("coregister", "out_file", "identity", "normalize_affine", "in_file"),
     Conn("coregister", "out_file", "identity", "normalize_warp", "in_file"),
     Conn("normalize_affine", "out_matrix_file", "identity", "normalize_warp", "affine_file"),
     Conn("realign", "out_file", "identity", "apply_warp", "in_file"),
     Conn("normalize_affine", "out_matrix_file", "identity", "apply_warp", "premat"),
     Conn("normalize_warp", "field_file", "identity", "apply_warp", "field_file"),
     Conn("apply_warp", "out_file", "identity", "smooth", "in_file"),
     Conn("infosource", "subject_id", "identity", "datasink", "container"),
     Conn("smooth", "out_file", "identity", "datasink", "smooth_func"),
     Conn("normalize_warp", "warped_file", "identity", "datasink", "norm_anat") >>

\* the 18 preproc.connect calls, in the order the script makes them
ConnectCalls ==
  << Conn("infosource", "subject_id", "identity", "datasource", "subject_id"),
     Conn("datasource", "bold", "identity", "img2float", "in_file"),
     Conn("img2float", "out_file", "identity", "extractref", "in_file"),
     Conn("img2float", "out_file", "identity", "realign", "in_file"),
     Conn("extractref", "roi_file", "pickfirst", "realign", "ref_file"),
     Conn("datasource", "anat", "identity", "skull_strip", "in_file"),
     Conn("extractref", "roi_file", "pickfirst", "coregister", "reference"),
     Conn("skull_strip", "out_file", "identity", "coregister", "in_file"),
     Conn("coregister", "out_file", "identity", "normalize_affine", "in_file"),
     Conn("coregister", "out_file", "identity", "normalize_warp", "in_file"),
     Conn("normalize_affine", "out_matrix_file", "identity", "normalize_warp", "affine_file"),
     Conn("realign", "out_file", "identity", "apply_warp", "in_file"),
     Conn("normalize_affine", "out_matrix_file", "identity", "apply_warp", "premat"),
     Conn("normalize_warp", "field_file", "identity", "apply_warp", "field_file"),
     Conn("apply_warp", "out_file", "identity", "smooth", "in_file"),
     Conn("infosource", "subject_id", "identity", "datasink", "container"),
     Conn("smooth", "out_file", "identity", "datasink", "smooth_func"),
     Conn("normalize_warp", "warped_file", "identity", "datasink", "norm_anat") >>

Edges == {ConnectCalls[k] : k \in 1..Len(ConnectCalls)}


(***************************************************************************)
(* Graph: connect and freeze.                                              *)
(***************************************************************************)
GenericNames == <<"n1", "n2", "n3", "n4", "n5">>
GNodes == {GenericNames[k] : k \in 1..MaxGraphNodes}

EmptyGraph == [nodes |-> {}, edges |-> {}]

\* connect(srcNode, srcPort, dstNode, dstPort, selector): adds the edge, or
\* fails with DuplicateInputError when dstPort already has an edge
connect(c) ==
  IF <<c.dst, c.dport>> \in bound
    THEN /\ frozen' = "DuplicateInputError"
         /\ UNCHANGED <<graph, bound>>
    ELSE /\ graph' = [nodes |-> graph.nodes \cup {c.src, c.dst},
                      edges |-> graph.edges \cup {<<c.src, c.dst>>}]
         /\ bound' = bound \cup {<<c.dst, c.dport>>}
         /\ UNCHANGED frozen

\* nodes left after repeatedly removing the nodes without a predecessor
RECURSIVE StripRoots(_, _)
StripRoots(ns, es) ==
  LET roots == {n \in ns : ~ \E e \in es : e[2] = n /\ e[1] \in ns}
  IN  IF roots = {} THEN ns ELSE StripRoots(ns \ roots, es)

\* nodes left after repeatedly removing the nodes without a successor
RECURSIVE StripLeaves(_, _)
StripLeaves(ns, es) ==
  LET leaves == {n \in ns : ~ \E e \in es : e[1] = n /\ e[2] \in ns}
  IN  IF leaves = {} THEN ns ELSE StripLeaves(ns \ leaves, es)

\* the nodes freeze reports: empty exactly when a topological order exists
CycleNodes(g) == StripLeaves(StripRoots(g.nodes, g.edges), g.edges)

\* freeze(): validates acyclicity; only a valid graph becomes the frozen one
freeze(g) ==
  LET left == CycleNodes(g)
  IN  IF left = {}
        THEN [result |-> "ok", named |-> {}, frozenGraphs |-> {g}]
        ELSE [result |-> "CycleDetectedError", named |-> left, frozenGraphs |-> {}]

GenericGraphs == {[nodes |-> GNodes, edges |-> es] : es \in SUBSET (GNodes \X GNodes)}

ExpandIdle == globbed = <<>> /\ pset = <<>> /\ contexts = <<>> /\ xdone = "no"
SelIdle ==
  /\ which = <<>> /\ filenames = <<>> /\ fileidx = 0 /\ pyMajor = 2
  /\ volres = [kind |-> "none", idx |-> 0]
RunIdle ==
  /\ nbold = 0 /\ plan = {} /\ limit = 1 /\ status = <<>> /\ reason = <<>> /\ inputs = <<>>
  /\ invoked = <<>> /\ cache = {} /\ succeeded = {} /\ cancelled = FALSE
  /\ pendingAtCancel = {} /\ returned = FALSE

\* either the script starts building preproc, or some graph has been built
InitBuild ==
  /\ \/ /\ script = TRUE
        /\ graph = [nodes |-> Nodes, edges |-> {}]
     \/ /\ script = FALSE
        /\ graph \in GenericGraphs
  /\ bound = {}
  /\ nconn = 0
  /\ frozen = "no"
  /\ named = {}
  /\ frozenGraphs = {}
  /\ ExpandIdle /\ SelIdle /\ RunIdle

\* the next preproc.connect call of the script
Connect ==
  /\ script
  /\ frozen = "no"
  /\ nconn < Len(ConnectCalls)
  /\ nconn' = nconn + 1
  /\ connect(ConnectCalls[nconn + 1])
  /\ UNCHANGED <<script, named, frozenGraphs, expandVars, selVars, runVars>>

\* freeze of the finished graph
Freeze ==
  /\ frozen = "no"
  /\ script => nconn = Len(ConnectCalls)
  /\ LET r == freeze(graph)
     IN  /\ frozen' = r.result
         /\ named' = r.named
         /\ frozenGraphs' = r.frozenGraphs
  /\ UNCHANGED <<graph, bound, nconn, script, expandVars, selVars, runVars>>

NextBuild == Connect \/ Freeze

SpecBuild == InitBuild /\ [][NextBuild]_vars

\* independent characterisation of cycles: n reaches itself along edges
RECURSIVE ReachFrom(_, _)
ReachFrom(S, es) ==
  LET more == S \cup {e[2] : e \in {f \in es : f[1] \in S}}
  IN  IF more = S THEN S ELSE ReachFrom(more, es)

OnCycle(g) ==
  {n \in g.nodes : n \in ReachFrom({e[2] : e \in {f \in g.edges : f[1] = n}}, g.edges)}

\* C7: freeze succeeds exactly on the acyclic graphs; on a graph with a cycle
\* it fails with CycleDetectedError naming at least one node on a cycle and
\* leaves no frozen graph; the graph of the 18 connect calls of preproc has
\* all 12 nodes, no duplicate input, and freezes successfully.
C7_FreezeAcyclic ==
  /\ frozen # "DuplicateInputError"
  /\ frozen = "ok" =>
       /\ OnCycle(graph) = {}
       /\ frozenGraphs = {graph}
  /\ frozen = "CycleDetectedError" =>
       /\ OnCycle(graph) # {}
       /\ named \cap OnCycle(graph) # {}
       /\ frozenGraphs = {}
  /\ frozen = "no" => frozenGraphs = {}
  /\ (script /\ nconn = 18) =>
       /\ graph.nodes = Nodes
       /\ Cardinality(bound) = 18
       /\ OnCycle(graph) = {}
  /\ (script /\ frozen # "no") => (nconn = 18 /\ frozen = "ok")

C7_Witness_Preproc == script /\ nconn = 18 /\ frozen = "ok"

(***************************************************************************)
(* Subjects and parameter expansion.                                       *)
(***************************************************************************)
datadir == <<"home", "brain", "bart", "data">>

\* the directory datadir/sub<k>; names compare as their numbers do
SubjPath(k) == [parent |-> datadir, name |-> k]

RECURSIVE Perms(_)
Perms(S) ==
  IF S = {} THEN {<<>>}
  ELSE UNION {{<<x>> \o p : p \in Perms(S \ {x})} : x \in S}

\* what glob.glob(datadir/sub*) can return: the existing directories, any order
GlobsUpTo(n) == UNION {Perms({SubjPath(k) : k \in D}) : D \in SUBSET (1..n)}
GlobResults == GlobsUpTo(MaxSubjDirs)

\* the listings a run starts from: sub1..subn present, listed in name order
RunGlobs == {[k \in 1..n |-> SubjPath(k)] : n \in 0..MaxRunDirs}

\* string order on two paths under the same parent
PathLess(p, q) == p.name < q.name

RECURSIVE InsertSorted(_, _)
InsertSorted(p, s) ==
  IF s = <<>> THEN <<p>>
  ELSE IF PathLess(p, Head(s)) THEN <<p>> \o s
  ELSE <<Head(s)>> \o InsertSorted(p, Tail(s))

RECURSIVE sorted(_)
sorted(s) == IF s = <<>> THEN <<>> ELSE InsertSorted(Head(s), sorted(Tail(s)))

subjdirs(g) == sorted(g)

\* path.split(os.path.sep)[-1]
Basename(p) == p.name

\* the subject list without the [:1] slice
subjectsUntruncated(g) == [k \in 1..Len(subjdirs(g)) |-> Basename(subjdirs(g)[k])]

\* subjects = [basename of each subjdir]; subjects = subjects[:1]
subjects(g) ==
  LET all == [k \in 1..Len(subjdirs(g)) |-> Basename(subjdirs(g)[k])]
  IN  SubSeq(all, 1, IF Len(all) < 1 THEN Len(all) ELSE 1)

\* infosource.iterables = [('subject_id', subjects)]
iterables(g) == << [name |-> "subject_id", values |-> subjects(g)] >>

RECURSIVE Flatten(_)
Flatten(ss) == IF ss = <<>> THEN <<>> ELSE Head(ss) \o Flatten(Tail(ss))

\* expand, step 1: the Cartesian product of the axes, one context per
\* combination; a context is the sequence of its <<axis, value>> bindings
RECURSIVE expand(_)
expand(ps) ==
  IF ps = <<>> THEN << <<>> >>
  ELSE LET axis == Head(ps)
           rest == expand(Tail(ps))
       IN  Flatten([i \in 1..Len(axis.values) |->
                      [j \in 1..Len(rest) |-> << <<axis.name, axis.values[i]>> >> \o rest[j]]])

AxisNames == <<"a1", "a2", "a3", "a4">>
SeqsUpTo(S, n) == UNION {[1..m -> S] : m \in 0..n}
GenericPsets ==
  UNION {{[k \in 1..m |-> [name |-> AxisNames[k], values |-> vs[k]]] :
            vs \in [1..m -> SeqsUpTo({1, 2}, MaxAxisLen)]} : m \in 0..MaxAxes}

BuildIdle ==
  /\ graph = EmptyGraph /\ bound = {} /\ nconn = 0 /\ frozen = "no"
  /\ named = {} /\ frozenGraphs = {}

InitExpand ==
  /\ \/ /\ script = TRUE
        /\ globbed \in GlobResults
        /\ pset = iterables(globbed)
     \/ /\ script = FALSE
        /\ globbed = <<>>
        /\ pset \in GenericPsets
  /\ contexts = <<>>
  /\ xdone = "no"
  /\ BuildIdle /\ SelIdle /\ RunIdle

Expand ==
  /\ xdone = "no"
  /\ contexts' = expand(pset)
  /\ xdone' = "yes"
  /\ UNCHANGED <<globbed, pset, buildVars, selVars, runVars>>

NextExpand == Expand

SpecExpand == InitExpand /\ [][NextExpand]_vars

RECURSIVE SizeProduct(_)
SizeProduct(ps) ==
  IF ps = <<>> THEN 1 ELSE Len(Head(ps).values) * SizeProduct(Tail(ps))

\* the combinations of one value position per axis
Combos(ps) == {f \in [1..Len(ps) -> 1..MaxAxisLen] : \A k \in 1..Len(ps) : f[k] <= Len(ps[k].values)}

ContextOf(ps, f) == [k \in 1..Len(ps) |-> <<ps[k].name, ps[k].values[f[k]]>>]

\* C5: expand yields one context per element of the product of the axes:
\* n1*...*nk contexts for k axes, exactly 1 for no axis; for preproc the only
\* axis is subject_id over the sorted directory names cut to at most one
\* entry, and the plan has one replica per entry of that list.
C5_ExpandProduct ==
  xdone = "yes" =>
    /\ Len(contexts) = SizeProduct(pset)
    /\ pset = <<>> => contexts = << <<>> >>
    /\ {contexts[j] : j \in 1..Len(contexts)} = {ContextOf(pset, f) : f \in Combos(pset)}
    /\ script =>
         /\ Len(pset) = 1 /\ pset[1].name = "subject_id"
         /\ Len(contexts) = (IF Len(globbed) = 0 THEN 0 ELSE 1)
         /\ \A j \in 1..Len(contexts) :
              /\ contexts[j][1][1] = "subject_id"
              /\ \A k \in 1..Len(globbed) : contexts[j][1][2] <= globbed[k].name

C5_Witness_TwoAxes == xdone = "yes" /\ Len(pset) = 2 /\ Len(contexts) = 4

(***************************************************************************)
(* Selectors.                                                              *)
(***************************************************************************)
\* values on edges: a list of artifacts, one artifact, or a raised error
List(items) == [kind |-> "list", items |-> items]
Scalar(a) == [kind |-> "scalar", items |-> <<a>>]
Raised(e) == [kind |-> e, items |-> <<>>]

\* a variant that takes the last element of a list
pickfirstLast(v) ==
  IF v.kind = "list"
    THEN IF Len(v.items) = 0 THEN Raised("IndexError") ELSE Scalar(v.items[Len(v.items)])
    ELSE v

\* pickfirst(files): files[0] of a list (IndexError on an empty one), else files
pickfirst(v) ==
  IF v.kind = "list"
    THEN IF Len(v.items) = 0 THEN Raised("IndexError") ELSE Scalar(v.items[1])
    ELSE v

\* Python's seq[i]: i counts from 0, a negative i from the end
PyInRange(s, i) == -Len(s) <= i /\ i < Len(s)
PyItem(s, i) == IF i >= 0 THEN s[i + 1] ELSE s[Len(s) + i + 1]

UpperChars == <<"F", "I", "R", "S", "T", "M", "D", "L", "E", "N", "X", "A">>
LowerChars == <<"f", "i", "r", "s", "t", "m", "d", "l", "e", "n", "x", "a">>

\* str.lower(), character by character
LowerChar(c) ==
  IF \E k \in 1..Len(UpperChars) : UpperChars[k] = c
    THEN LowerChars[CHOOSE k \in 1..Len(UpperChars) : UpperChars[k] = c]
    ELSE c
lower(w) == [k \in 1..Len(w) |-> LowerChar(w[k])]

Index(n) == [kind |-> "index", idx |-> n]
Fail(e) == [kind |-> e, idx |-> 0]

\* int(np.ceil(n/2)): n/2 is floor division under Python 2, true division
\* under Python 3
HalfCeil(n, py) == IF py = 2 THEN n \div 2 ELSE (n + 1) \div 2

\* pickvol comparing the tag as given, without lower()
pickvolCaseSensitive(fnames, idx, w, py) ==
  IF w = <<"f", "i", "r", "s", "t">> THEN Index(0)
  ELSE IF w = <<"m", "i", "d", "d", "l", "e">>
    THEN IF ~ PyInRange(fnames, idx) THEN Fail("IndexError")
         ELSE IF ~ PyInRange(PyItem(fnames, idx), 3) THEN Fail("IndexError")
         ELSE Index(HalfCeil(PyItem(PyItem(fnames, idx), 3), py))
  ELSE Fail("Exception")

\* pickvol(filenames, fileidx, which)
pickvol(fnames, idx, w, py) ==
  IF lower(w) = <<"f", "i", "r", "s", "t">> THEN Index(0)
  ELSE IF lower(w) = <<"m", "i", "d", "d", "l", "e">>
    THEN IF ~ PyInRange(fnames, idx) THEN Fail("IndexError")
         ELSE IF ~ PyInRange(PyItem(fnames, idx), 3) THEN Fail("IndexError")
         ELSE Index(HalfCeil(PyItem(PyItem(fnames, idx), 3), py))
  ELSE Fail("Exception")

FirstSpellings == {<<"f", "i", "r", "s", "t">>, <<"F", "I", "R", "S", "T">>, <<"F", "i", "r", "s", "t">>}
MiddleSpellings ==
  {<<"m", "i", "d", "d", "l", "e">>, <<"M", "I", "D", "D", "L", "E">>, <<"M", "i", "d", "d", "l", "e">>}
IndexSpellings == {<<"i", "n", "d", "e", "x">>, <<"I", "N", "D", "E", "X">>, <<"2">>}
OtherTags == {<<"l", "a", "s", "t">>, <<>>}
Tags == FirstSpellings \cup MiddleSpellings \cup IndexSpellings \cup OtherTags

\* image shapes: a 3-D image, or a 4-D one with 1..MaxVols volumes
Shapes == {<<4, 4, 2>>} \cup {<<4, 4, 2, n>> : n \in 1..MaxVols}

InitSel ==
  /\ which \in Tags
  /\ filenames \in SeqsUpTo(Shapes, MaxFiles)
  /\ fileidx \in -1..MaxFiles
  /\ pyMajor \in {2, 3}
  /\ volres = [kind |-> "none", idx |-> 0]
  /\ script = FALSE
  /\ BuildIdle /\ ExpandIdle /\ RunIdle

Pickvol ==
  /\ volres.kind = "none"
  /\ volres' = pickvol(filenames, fileidx, which, pyMajor)
  /\ UNCHANGED <<which, filenames, fileidx, pyMajor, script, graph, bound, nconn,
                 frozen, named, frozenGraphs, expandVars, runVars>>

NextSel == Pickvol

SpecSel == InitSel /\ [][NextSel]_vars

\* the file pickvol loads exists and its image is 4-D
Loadable == PyInRange(filenames, fileidx) /\ Len(PyItem(filenames, fileidx)) = 4
NVols == PyItem(filenames, fileidx)[4]

EdgePairs == {<<e.src, e.dst>> : e \in Edges}

InEdgesOf == [n \in Nodes |-> {e \in Edges : e.dst = n}]
InEdges(n) == InEdgesOf[n]

\* number of bold runs glob'd by the data source template task001_r*
BoldCounts == 0..MaxBold

\* fan-out of a node in one context: a MapNode has one instance per element
\* of the list on its iterfield input, a Node has one
RECURSIVE NInst(_)
NInst(n) ==
  IF n \notin MapNodes THEN 1
  ELSE LET e == CHOOSE f \in InEdges(n) : f.dport \in iterfield(n)
       IN  IF e.src \in MapNodes THEN NInst(e.src)
           ELSE IF e.src = "datasource" /\ e.sport = "bold" THEN nbold
           ELSE 1

Inst(n, c, j) == [node |-> n, ctx |-> c, idx |-> j]

\* the ExecutionInstances of the plan: the graph once per iteration context,
\* a MapNode once per list element
Instances ==
  {Inst(n, c, 0) : n \in Nodes \ MapNodes, c \in 1..Len(contexts)}
  \cup UNION {{Inst(n, c, j) : j \in 1..NInst(n)} : n \in MapNodes, c \in 1..Len(contexts)}

Art(n, p, c, j) == [node |-> n, port |-> p, ctx |-> c, idx |-> j]

\* the value a node offers on an output port once all its instances are done:
\* the list of the siblings' artifacts for a MapNode, the sorted list of bold
\* files for the data source, one artifact otherwise
OutputValue(n, p, c) ==
  IF n \in MapNodes THEN List([j \in 1..NInst(n) |-> Art(n, p, c, j)])
  ELSE IF n = "datasource" /\ p = "bold" THEN List([j \in 1..nbold |-> Art(n, p, c, j)])
  ELSE Scalar(Art(n, p, c, 0))

ApplySelector(sel, v) == IF sel = "pickfirst" THEN pickfirst(v) ELSE v

\* the value instance i receives over edge e: the selector is applied once to
\* the producer's whole output; an iterfield port then takes its own element
EdgeValue(e, i) ==
  LET v == ApplySelector(e.sel, OutputValue(e.src, e.sport, i.ctx))
  IN  IF e.dport \in iterfield(i.node) /\ v.kind = "list"
        THEN Scalar(v.items[i.idx])
        ELSE v

InPorts(n) == {e.dport : e \in InEdges(n)}

\* the resolved inputs of instance i, by input port
Resolve(i) ==
  [p \in InPorts(i.node) |-> EdgeValue(CHOOSE e \in InEdges(i.node) : e.dport = p, i)]

SelectorFails(r) ==
  \E p \in DOMAIN r : r[p].kind \notin {"list", "scalar"}

\* CacheKey: node identity and resolved inputs (the action version is fixed)
CacheKey(i, r) == [node |-> i.node, inputs |-> r]

\* nodes feeding n, and nodes reached from n
PredNodes == [n \in Nodes |-> {e[1] : e \in {f \in EdgePairs : f[2] = n}}]
DescNodes ==
  [n \in Nodes |-> ReachFrom({e[2] : e \in {f \in EdgePairs : f[1] = n}}, EdgePairs)]

\* instances producing an input of i
Producers(i) == {j \in plan : j.ctx = i.ctx /\ j.node \in PredNodes[i.node]}

\* instances depending on i directly or transitively
Dependents(i) == {j \in plan : j.ctx = i.ctx /\ j.node \in DescNodes[i.node]}

Terminal == {"DONE", "CACHED", "FAILED", "CANCELLED", "SKIPPED"}
Running == {i \in plan : status[i] = "RUNNING"}

\* mark i failed and every pending dependent SKIPPED(UpstreamFailure)
FailAndPropagate(i, why) ==
  /\ status' = [j \in plan |->
                  IF j = i THEN "FAILED"
                  ELSE IF j \in Dependents(i) /\ status[j] = "PENDING" THEN "SKIPPED"
                  ELSE status[j]]
  /\ reason' = [j \in plan |->
                  IF j = i THEN why
                  ELSE IF j \in Dependents(i) /\ status[j] = "PENDING" THEN "UpstreamFailure"
                  ELSE reason[j]]

\* the workflow is built at import, then run: a fresh working directory
\* (run_preproc removes it after each run), so an empty cache store
InitRun ==
  /\ script = TRUE
  /\ graph = [nodes |-> Nodes, edges |-> EdgePairs]
  /\ bound = {<<e.dst, e.dport>> : e \in Edges}
  /\ nconn = Len(ConnectCalls)
  /\ frozen = freeze(graph).result
  /\ named = freeze(graph).named
  /\ frozenGraphs = freeze(graph).frozenGraphs
  /\ globbed \in RunGlobs
  /\ pset = iterables(globbed)
  /\ contexts = expand(pset)
  /\ xdone = "yes"
  /\ SelIdle
  /\ nbold \in BoldCounts
  /\ plan = Instances
  /\ limit \in 1..MaxLimit
  /\ status = [i \in plan |-> "PENDING"]
  /\ reason = [i \in plan |-> ""]
  /\ inputs = [i \in plan |-> <<>>]
  /\ invoked = [i \in plan |-> 0]
  /\ cache = {}
  /\ succeeded = {}
  /\ cancelled = FALSE
  /\ pendingAtCancel = {}
  /\ returned = FALSE

\* the executor takes a ready instance: resolves its inputs (running the edge
\* selectors), looks its CacheKey up, and hands it to a worker on a miss
Dispatch(i) ==
  /\ frozen = "ok" /\ ~ returned /\ ~ cancelled
  /\ status[i] = "PENDING"
  /\ \A j \in Producers(i) : status[j] \in {"DONE", "CACHED"}
  /\ Cardinality(Running) < limit
  /\ LET r == Resolve(i)
     IN  /\ inputs' = [inputs EXCEPT ![i] = r]
         /\ IF SelectorFails(r)
              THEN /\ FailAndPropagate(i, "SelectorError")
                   /\ UNCHANGED invoked
              ELSE IF CacheKey(i, r) \in cache
                THEN /\ status' = [status EXCEPT ![i] = "CACHED"]
                     /\ UNCHANGED <<reason, invoked>>
                ELSE /\ status' = [status EXCEPT ![i] = "RUNNING"]
                     /\ invoked' = [invoked EXCEPT ![i] = @ + 1]
                     /\ UNCHANGED reason
  /\ UNCHANGED <<nbold, plan, limit, cache, succeeded, cancelled, pendingAtCancel,
                 returned, buildVars, expandVars, selVars>>

\* a variant that marks the key done however the action ended
FinishStoresPartial(i, ok) ==
  /\ status[i] = "RUNNING"
  /\ cache' = cache \cup {CacheKey(i, inputs[i])}
  /\ IF ok
       THEN /\ status' = [status EXCEPT ![i] = "DONE"]
            /\ succeeded' = succeeded \cup {i}
            /\ UNCHANGED reason
       ELSE /\ FailAndPropagate(i, "ActionError")
            /\ UNCHANGED succeeded
  /\ UNCHANGED <<nbold, plan, limit, inputs, invoked, cancelled, pendingAtCancel,
                 returned, buildVars, expandVars, selVars>>

\* a worker's action returns: success records the artifacts and marks the key
\* done; failure marks the instance failed and skips its dependents
Finish(i, ok) ==
  /\ status[i] = "RUNNING"
  /\ IF ok
       THEN /\ status' = [status EXCEPT ![i] = "DONE"]
            /\ cache' = cache \cup {CacheKey(i, inputs[i])}
            /\ succeeded' = succeeded \cup {i}
            /\ UNCHANGED reason
       ELSE /\ FailAndPropagate(i, "ActionError")
            /\ UNCHANGED <<cache, succeeded>>
  /\ UNCHANGED <<nbold, plan, limit, inputs, invoked, cancelled, pendingAtCancel,
                 returned, buildVars, expandVars, selVars>>

\* cancellation: every instance not yet dispatched is marked CANCELLED
Cancel ==
  /\ frozen = "ok" /\ ~ returned /\ ~ cancelled
  /\ cancelled' = TRUE
  /\ pendingAtCancel' = {i \in plan : status[i] = "PENDING"}
  /\ status' = [i \in plan |-> IF status[i] = "PENDING" THEN "CANCELLED" ELSE status[i]]
  /\ UNCHANGED <<nbold, plan, limit, reason, inputs, invoked, cache, succeeded,
                 returned, buildVars, expandVars, selVars>>

\* after a cancellation an in-flight action asked to terminate does so
Terminate(i) ==
  /\ cancelled
  /\ status[i] = "RUNNING"
  /\ status' = [status EXCEPT ![i] = "CANCELLED"]
  /\ UNCHANGED <<nbold, plan, limit, reason, inputs, invoked, cache, succeeded,
                 cancelled, pendingAtCancel, returned, buildVars, expandVars, selVars>>

\* run returns its report once no instance is pending or running
Return ==
  /\ frozen = "ok" /\ ~ returned
  /\ \A i \in plan : status[i] \in Terminal
  /\ returned' = TRUE
  /\ UNCHANGED <<nbold, plan, limit, status, reason, inputs, invoked, cache, succeeded,
                 cancelled, pendingAtCancel, buildVars, expandVars, selVars>>

DispatchSome == \E i \in plan : Dispatch(i)
FinishSome == \E i \in plan : \E ok \in BOOLEAN : Finish(i, ok)
TerminateSome == \E i \in plan : Terminate(i)

Next == DispatchSome \/ FinishSome \/ Cancel \/ TerminateSome \/ Return

Spec == InitRun /\ [][Next]_vars

\* every dispatched action eventually finishes, and the executor keeps
\* dispatching ready instances and returns when none is left: some such step
\* is taken whenever one stays possible
Progress == DispatchSome \/ FinishSome \/ Return

FairSpec == Spec /\ WF_vars(Progress)

(***************************************************************************)
(* Properties of a run.                                                    *)
(***************************************************************************)
InstancesOf(n, c) == {i \in plan : i.node = n /\ i.ctx = c}
Completed == {"DONE", "CACHED"}
Dispatched(i) == status[i] \in {"RUNNING", "DONE", "CACHED", "FAILED"}
Ctxs == 1..Len(contexts)

\* instance i is taken by the executor in this step
DispatchStep(i) == status[i] = "PENDING" /\ status'[i] \in {"RUNNING", "CACHED", "FAILED"}

\* C1: whenever an instance is dispatched, every instance producing one of
\* its inputs is already completed or marked failed; in particular realign is
\* dispatched only after all of img2float and extractref completed, datasink
\* only after all of smooth and normalize_warp.
C1_DispatchAfterProducers ==
  [][\A i \in plan : DispatchStep(i) =>
       /\ \A j \in Producers(i) : status[j] \in Completed \cup {"FAILED"}
       /\ i.node = "realign" =>
            \A j \in InstancesOf("img2float", i.ctx) \cup InstancesOf("extractref", i.ctx) :
               status[j] \in Completed
       /\ i.node = "datasink" =>
            \A j \in InstancesOf("smooth", i.ctx) \cup InstancesOf("normalize_warp", i.ctx) :
               status[j] \in Completed]_vars

C1_Witness_RealignRunning ==
  /\ nbold = 2
  /\ \E i \in plan : i.node = "realign" /\ i.idx = 2 /\ status[i] = "RUNNING"
  /\ \A j \in plan : j.node = "extractref" => status[j] = "DONE"

FailedAncestor(i) == \E a \in plan : status[a] = "FAILED" /\ i \in Dependents(a)

AfterSkullStrip ==
  {"coregister", "normalize_affine", "normalize_warp", "apply_warp", "smooth", "datasink"}

\* C2: at the end of a run that was not cancelled, every instance depending
\* on a failed instance is SKIPPED(UpstreamFailure) and was never invoked, and
\* every instance with no failed ancestor that did not fail itself is DONE; a
\* failed skull_strip skips coregister, normalize_affine, normalize_warp,
\* apply_warp, smooth and datasink while img2float, extractref and realign
\* complete.
C2_FailurePropagation ==
  (returned /\ ~ cancelled) =>
    /\ \A i \in plan :
         /\ FailedAncestor(i) =>
              status[i] = "SKIPPED" /\ reason[i] = "UpstreamFailure" /\ invoked[i] = 0
         /\ (~ FailedAncestor(i) /\ status[i] # "FAILED") => status[i] = "DONE"
    /\ \A a \in plan : (a.node = "skull_strip" /\ status[a] = "FAILED") =>
         /\ \A i \in plan : (i.ctx = a.ctx /\ i.node \in AfterSkullStrip) =>
              status[i] = "SKIPPED" /\ invoked[i] = 0
         /\ (\A b \in plan : status[b] = "FAILED" => b = a) =>
              \A i \in plan : i.node \in {"img2float", "extractref", "realign"} =>
                 status[i] = "DONE"

C2_Witness_SkullStripFails ==
  /\ returned /\ ~ cancelled /\ nbold = 2
  /\ \E a \in plan : a.node = "skull_strip" /\ status[a] = "FAILED"
  /\ \E i \in plan : i.node = "realign" /\ i.idx = 2 /\ status[i] = "DONE"
  /\ \E i \in plan : i.node = "datasink" /\ status[i] = "SKIPPED"

\* C4: under fair scheduling every run returns, and when it has returned every
\* instance of the plan has a terminal status; the status table always covers
\* exactly the instances of the plan.
C4_RunReturns ==
  /\ <>returned
  /\ [](returned => \A i \in plan : status[i] \in Terminal)
  /\ [](plan = Instances /\ DOMAIN status = plan)

C4_Witness_ReturnedAllDone ==
  /\ returned /\ nbold = 2 /\ limit = 1 /\ plan # {}
  /\ \A i \in plan : status[i] = "DONE"

\* C6 as stated: a MapNode has one instance per element of its list input,
\* and with an empty bold list the empty list is passed on and nothing in the
\* run raises an error.
C6_EmptyListNoError ==
  /\ \A n \in MapNodes : \A c \in Ctxs : Cardinality(InstancesOf(n, c)) = nbold
  /\ nbold = 0 =>
       \A i \in plan : ~ (status[i] = "FAILED" /\ reason[i] = "SelectorError")

\* C8: the cache store holds a key only when the action of an instance with
\* that key returned successfully; no instance that is pending, in flight,
\* failed, skipped or cancelled has its key marked done; every instance still
\* pending when the run is cancelled is CANCELLED and was never invoked.
C8_CacheOnlySuccess ==
  /\ \A k \in cache :
       \E i \in succeeded : status[i] = "DONE" /\ CacheKey(i, inputs[i]) = k
  /\ \A i \in plan : status[i] # "DONE" =>
       /\ i \notin succeeded
       /\ CacheKey(i, Resolve(i)) \notin cache
  /\ cancelled =>
       \A i \in pendingAtCancel : status[i] = "CANCELLED" /\ invoked[i] = 0
  /\ ~ cancelled => \A i \in plan : status[i] # "CANCELLED"

C8_Witness_CancelledInFlight ==
  /\ returned /\ cancelled /\ nbold = 2
  /\ \E i \in plan : i.node = "skull_strip" /\ status[i] = "CANCELLED" /\ invoked[i] = 1
  /\ \E i \in plan : i.node = "img2float" /\ status[i] = "FAILED"
  /\ \E i \in plan : i.node = "img2float" /\ status[i] = "DONE"
  /\ \E i \in pendingAtCancel : i.node = "datasink"

FirstRoi(c) == Scalar(Art("extractref", "roi_file", c, 1))

\* C10: pickfirst yields the first element of the roi_file list and passes a
\* non-list value through; every realign sibling that receives its inputs
\* gets as ref_file, and coregister as reference, the roi_file of the first
\* extractref sibling, which was extracted from the first bold run; with at
\* least one bold run the selector never fails.
C10_PickfirstShared ==
  /\ \A c \in Ctxs : \A p \in {"roi_file", "out_file"} :
       pickfirst(Scalar(Art("extractref", p, c, 0))) = Scalar(Art("extractref", p, c, 0))
  /\ \A i \in plan : (Dispatched(i) /\ reason[i] # "SelectorError") =>
       /\ i.node = "realign" =>
            /\ inputs[i].ref_file = FirstRoi(i.ctx)
            /\ inputs[i].in_file = Scalar(Art("img2float", "out_file", i.ctx, i.idx))
       /\ i.node = "coregister" => inputs[i].reference = FirstRoi(i.ctx)
       /\ (i.node = "extractref" /\ i.idx = 1) =>
            inputs[i].in_file = Scalar(Art("img2float", "out_file", i.ctx, 1))
       /\ (i.node = "img2float" /\ i.idx = 1) =>
            inputs[i].in_file = Scalar(Art("datasource", "bold", i.ctx, 1))
  /\ nbold >= 1 => \A i \in plan : reason[i] # "SelectorError"

C10_Witness_SiblingsAndCoregister ==
  /\ nbold = 2
  /\ \E i \in plan : i.node = "realign" /\ i.idx = 1 /\ status[i] = "DONE"
  /\ \E i \in plan : i.node = "realign" /\ i.idx = 2 /\ status[i] = "RUNNING"
  /\ \E i \in plan : i.node = "coregister" /\ status[i] = "RUNNING"
=============================================================================
